---- MODULE Spec2Model ----
(***************************************************************************)
(* A model of PreREISE's two data-gathering pipelines.                     *)
(*                                                                         *)
(*   prereise/gather/solardata/NSRDB/naive.py   (a script, module level)   *)
(*   prereise/gather/winddata/te_wind/te_wind.py                           *)
(*                                                                         *)
(* Numbers.  pandas/numpy floats are modelled by exact rationals, a record *)
(* [num, den] with den > 0; the nan and inf that numpy returns for 0/0 and *)
(* x/0 are the two records with den = 0.  Solar coordinates are fixed-     *)
(* point numbers, an integer count of millionths of a degree.              *)
(***************************************************************************)
EXTENDS Integers, Sequences, FiniteSets, TLC

VARIABLES
    \* ---- solar script (naive.py) ----
    solar_plant,   \* grid.genbus.groupby('type').get_group('solar'), l.21
    coord,         \* dict: location key -> list of (plant id, Pmax), l.24
    pc,            \* position of the script
    k,             \* 1-based position of the `for key in toto` loop, l.97
    ghi,           \* data_loc.GHI.values of the location last queried, l.101
    data_loc,      \* the location's frame, rows 1..N with Pout and id, l.102
    data,          \* the accumulated frame, rows [idx, Pout, id], l.91
    queried,       \* the keys for which a download was issued, in order, l.99
    outfile,       \* the lines of western_Pout_2016.txt, l.117
    written        \* whether to_csv has created the file, l.117

solarVars == <<solar_plant, coord, pc, k, ghi, data_loc, data, queried,
               outfile, written>>

VARIABLES
    \* ---- wind functions (te_wind.py), called one after the other ----
    nrel_sites,           \* the site catalog, l.67
    wind_farm_bus,        \* the wind plants of the grid
    closest_NREL_siteID,  \* plantID -> [siteID, capacity, dist], l.81
    wpc,                  \* position of the wind pipeline
    reqn,                 \* requests answered so far by the data service
    served,               \* what the data service answered, per request
    sites_dict,           \* month label -> siteID -> frame, l.127
    NREL_power,           \* siteID -> power per timestamp, l.175
    NREL_windspeed,       \* siteID -> wind speed per timestamp, l.179
    wind_farm_power,      \* plantID -> power per timestamp, l.209
    hourly                \* plantID -> hourly means, l.215

windVars == <<nrel_sites, wind_farm_bus, closest_NREL_siteID, wpc, reqn,
              served, sites_dict, NREL_power, NREL_windspeed,
              wind_farm_power, hourly>>

vars == <<solarVars, windVars>>

-----------------------------------------------------------------------------
(* Bounds of the model and domains of the inputs.                          *)

MaxPlants == 3          \* at most this many solar plants in the grid
MaxN == 2               \* at most this many time steps in a GHI series

\* (lon, lat) of the places a solar plant may stand at, in millionths of
\* a degree: the two places of l.95 and one that shares a longitude with
\* the first and a latitude with the second
Locations == {<<-122405600, 45584722>>, <<-122433100, 48448100>>,
              <<-122405600, 48448100>>}
GhiVals == {0, 50, 100}              \* W/m2, non-negative

MaxSites == 2           \* at most this many sites in the catalog
MaxWindPlants == 2      \* at most this many wind plants in the grid
NMonths == 1            \* calendar months of the date range
NSamples == 2           \* 5-minute samples of a month

SiteLats == {39, 41, 46}             \* degrees
PlantLats == {40, 41}                \* degrees

-----------------------------------------------------------------------------
(* Floats as rationals.                                                    *)

Rat(n, d) == [num |-> n, den |-> d]
NaN == Rat(0, 0)
Inf == Rat(1, 0)
IsNaN(x) == x = NaN
IsFinite(x) == x.den > 0

\* numpy true division of two non-negative numbers, the divisor an
\* integer: 0/0 is nan and x/0 is inf (no exception is raised, only a
\* RuntimeWarning)
Div(n, d) == IF d # 0 THEN Rat(n, d) ELSE IF n = 0 THEN NaN ELSE Inf

\* float * positive number
Mul(x, c) == IF IsFinite(x) THEN Rat(x.num * c, x.den) ELSE x

\* numeric equality of two floats (nan equals nothing)
RatEq(x, y) ==
    \/ IsFinite(x) /\ IsFinite(y) /\ x.num * y.den = y.num * x.den
    \/ x = Inf /\ y = Inf

-----------------------------------------------------------------------------
(* str() of a float64 coordinate: the shortest decimal that round-trips,   *)
(* i.e. sign, integer part, ".", fraction without trailing zeros.          *)

Digit(d) ==
    CASE d = 0 -> "0" [] d = 1 -> "1" [] d = 2 -> "2" [] d = 3 -> "3"
      [] d = 4 -> "4" [] d = 5 -> "5" [] d = 6 -> "6" [] d = 7 -> "7"
      [] d = 8 -> "8" [] d = 9 -> "9"

RECURSIVE NatStr(_)
NatStr(n) == IF n < 10 THEN Digit(n)
             ELSE NatStr(n \div 10) \o Digit(n % 10)

\* the w low digits of f, zero padded on the left
RECURSIVE PadStr(_, _)
PadStr(f, w) == IF w = 0 THEN ""
                ELSE PadStr(f \div 10, w - 1) \o Digit(f % 10)

\* the fraction f/10^w without its trailing zeros, at least one digit
RECURSIVE FracStr(_, _)
FracStr(f, w) == IF w > 1 /\ f % 10 = 0 THEN FracStr(f \div 10, w - 1)
                 ELSE PadStr(f, w)

Abs(x) == IF x < 0 THEN -x ELSE x

Str(x) ==
    (IF x < 0 THEN "-" ELSE "")
        \o NatStr(Abs(x) \div 1000000) \o "." \o FracStr(Abs(x) % 1000000, 6)

-----------------------------------------------------------------------------
(* The solar script, naive.py.                                             *)

\* the index label of the i-th solar plant of the grid (labels are unique)
PlantId(i) == 100 + i

\* the Pmax column of the grid, in MW: every plant has its own capacity
PlantPmax(i) == 10 * i

\* the grids the script may be given: up to MaxPlants solar plants, each
\* at one of Locations
Plants(n) == [1..n -> Locations]
Grid(f) == [i \in DOMAIN f |->
               [id |-> PlantId(i), lon |-> f[i][1], lat |-> f[i][2],
                Pmax |-> PlantPmax(i)]]

\* KeyOf with the longitude written twice
KeyOfLonTwice(p) == <<Str(p.lon), Str(p.lon)>>

\* l.26: key = (str(lon), str(lat))
KeyOf(p) == <<Str(p.lon), Str(p.lat)>>

EmptyDict == [x \in {} |-> <<>>]

\* l.27-30: one iteration of the deduplication loop
AddPlant(c, p) ==
    IF KeyOf(p) \in DOMAIN c
    THEN [c EXCEPT ![KeyOf(p)] = Append(@, <<p.id, p.Pmax>>)]
    ELSE c @@ (KeyOf(p) :> << <<p.id, p.Pmax>> >>)

\* l.24-30: the loop over the plants, from the i-th on
RECURSIVE Dedup(_, _, _)
Dedup(c, plants, i) ==
    IF i > Len(plants) THEN c
    ELSE Dedup(AddPlant(c, plants[i]), plants, i + 1)

\* l.95: the literal list of keys the location loop runs over
toto == << <<"-122.4056", "45.584722">>, <<"-122.4331", "48.4481">> >>

\* SeqMax taking the last value of the column for its largest
SeqLast(g) == g[Len(g)]

\* data_loc.max(): the largest value of the column
SeqMax(g) == CHOOSE m \in {g[t] : t \in DOMAIN g} :
                 \A t \in DOMAIN g : g[t] <= m

\* l.102-103: a frame indexed 1..len(ghi) with the single column Pout,
\* divided by its maximum
Normalize(g) ==
    [Pout |-> [t \in 1..Len(g) |-> Div(g[t], SeqMax(g))]]

\* l.107: data_site['Pout']*[i[1]]*len(data_loc).  `*` associates to the
\* left: the column is multiplied by the one-element list [Pmax] (numpy
\* broadcasts it) and the product by the integer len(data_loc).
ScalePout(x, pmax, n) == Mul(Mul(x, pmax), n)

\* l.106-108: data_site is another name of the data_loc object, so both
\* assignments change data_loc
ScaleOne(dl, plant) ==
    LET n == Len(dl.Pout)
    IN  [Pout |-> [t \in 1..n |-> ScalePout(dl.Pout[t], plant[2], n)],
         id   |-> [t \in 1..n |-> plant[1]]]

\* the rows of a frame, with their index labels
Rows(dl) ==
    [t \in 1..Len(dl.Pout) |->
        [idx |-> t, Pout |-> dl.Pout[t], id |-> dl.id[t]]]

\* l.109-112: both branches put the rows of data_site after those of data
Accumulate(dat, dl) == dat \o Rows(dl)

\* l.105-112: the loop over the plants of the location, from the j-th on
RECURSIVE ScaleAll(_, _, _, _)
ScaleAll(dl, dat, plants, j) ==
    IF j > Len(plants) THEN [data_loc |-> dl, data |-> dat]
    ELSE LET site == ScaleOne(dl, plants[j])
         IN  ScaleAll(site, Accumulate(dat, site), plants, j + 1)

\* the largest index label of a frame, 0 for an empty one
MaxIdx(rows) ==
    IF rows = <<>> THEN 0
    ELSE CHOOSE m \in {rows[r].idx : r \in DOMAIN rows} :
             \A r \in DOMAIN rows : rows[r].idx <= m

HasIdx(rows, t) == SelectSeq(rows, LAMBDA r : r.idx = t)

\* l.113: data.sort_index(inplace=True): the rows in ascending index
\* order.  Rows of one index keep their relative order here; the default
\* quicksort of pandas does not fix that order, and no property below
\* depends on it.
RECURSIVE SortUpTo(_, _)
SortUpTo(rows, t) ==
    IF t = 0 THEN <<>> ELSE SortUpTo(rows, t - 1) \o HasIdx(rows, t)

\* SortIndex leaving the rows as they were appended
Unsorted(rows) == rows

SortIndex(rows) == SortUpTo(rows, MaxIdx(rows))

\* l.117: to_csv(sep='\t', header=None, index=True, columns=['id','Pout']):
\* one line per row: the index label, then id, then Pout
ToCsv(rows) ==
    [r \in 1..Len(rows) |-> <<rows[r].idx, rows[r].id, rows[r].Pout>>]

SolarInit ==
    /\ \E n \in 0..MaxPlants : \E f \in Plants(n) : solar_plant = Grid(f)
    /\ coord = EmptyDict
    /\ pc = "start"
    /\ k = 1
    /\ ghi = <<>>
    /\ data_loc = [Pout |-> <<>>]
    /\ data = <<>>          \* l.91 (built before the loop)
    /\ queried = <<>>
    /\ outfile = <<>>
    /\ written = FALSE

\* the script as it stands when only the wind functions are run
SolarIdle ==
    /\ solar_plant = <<>>
    /\ coord = EmptyDict
    /\ pc = "idle"
    /\ k = 1
    /\ ghi = <<>>
    /\ data_loc = [Pout |-> <<>>]
    /\ data = <<>>
    /\ queried = <<>>
    /\ outfile = <<>>
    /\ written = FALSE

\* l.24-32
Deduplicate ==
    /\ pc = "start"
    /\ coord' = Dedup(EmptyDict, solar_plant, 1)
    /\ pc' = "loop"
    /\ UNCHANGED <<solar_plant, k, ghi, data_loc, data, queried, outfile,
                   written>>
    /\ UNCHANGED windVars

\* l.98-103: the download for toto[k] answers with a GHI series.  The
\* archive serves one year at one interval (l.42, l.53), so every answer
\* of a run has the same number N of rows.
Query ==
    /\ pc = "loop"
    /\ k <= Len(toto)
    /\ \E n \in 1..MaxN : \E g \in [1..n -> GhiVals] :
          /\ ghi = <<>> \/ n = Len(ghi)
          /\ ghi' = g
          /\ data_loc' = Normalize(g)
    /\ queried' = Append(queried, toto[k])
    /\ pc' = "scale"
    /\ UNCHANGED <<solar_plant, coord, k, data, outfile, written>>
    /\ UNCHANGED windVars

\* l.99: pd.read_csv raises (transport, authentication, malformed answer);
\* nothing catches it and the script ends
QueryFails ==
    /\ pc = "loop"
    /\ k <= Len(toto)
    /\ queried' = Append(queried, toto[k])
    /\ pc' = "failed"
    /\ UNCHANGED <<solar_plant, coord, k, ghi, data_loc, data, outfile,
                   written>>
    /\ UNCHANGED windVars

\* l.105-112
ScalePlants ==
    /\ pc = "scale"
    /\ toto[k] \in DOMAIN coord
    /\ LET plants == coord[toto[k]]
           r == ScaleAll(data_loc, data, plants, 1)
       IN  /\ data_loc' = r.data_loc
           /\ data' = r.data
    /\ k' = k + 1
    /\ pc' = "loop"
    /\ UNCHANGED <<solar_plant, coord, ghi, queried, outfile, written>>
    /\ UNCHANGED windVars

\* NoSuchKey going on to the next location instead of raising
NoSuchKeySkipped ==
    /\ pc = "scale"
    /\ toto[k] \notin DOMAIN coord
    /\ k' = k + 1
    /\ pc' = "loop"
    /\ UNCHANGED <<solar_plant, coord, ghi, data_loc, data, queried,
                   outfile, written>>
    /\ UNCHANGED windVars

\* l.105: coord[key] raises KeyError for a key the mapping does not hold
NoSuchKey ==
    /\ pc = "scale"
    /\ toto[k] \notin DOMAIN coord
    /\ pc' = "failed"
    /\ UNCHANGED <<solar_plant, coord, k, ghi, data_loc, data, queried,
                   outfile, written>>
    /\ UNCHANGED windVars

\* l.113-117
WriteFile ==
    /\ pc = "loop"
    /\ k > Len(toto)
    /\ data' = SortIndex(data)
    /\ outfile' = ToCsv(SortIndex(data))
    /\ written' = TRUE
    /\ pc' = "done"
    /\ UNCHANGED <<solar_plant, coord, k, ghi, data_loc, queried>>
    /\ UNCHANGED windVars

-----------------------------------------------------------------------------
(* The wind functions, te_wind.py.                                         *)
(*                                                                         *)
(* Angles are integer multiples of the unit 1/(113*180) rad, with pi taken *)
(* as 355/113, so that a number of degrees is a whole number of units both *)
(* when converted to radians and when read as a number of radians.  Every  *)
(* site and plant of the model stands on one meridian.                     *)

R == 6368                          \* km, l.23

PiU == 355 * 180                   \* pi
AsRadians(x) == x * 113 * 180      \* the float x, taken as x rad

\* l.14-29, for lon1 = lon2: haversin(lon2-lon1) = 0 and the result is
\* 2R asin |sin((lat2-lat1)/2)|, i.e. R times the angle between the two
\* latitudes folded into [0, pi].  Arguments in angle units, result in
\* km times 113*180.
greatCircleDistance(lat1, lon1, lat2, lon2) ==
    CASE lon1 = lon2 ->
        LET r == Abs(lat2 - lat1) % (2 * PiU)
        IN  R * (IF r > PiU THEN 2 * PiU - r ELSE r)

\* the catalogs and grids the functions may be given (lat, lon in degrees,
\* as the site registry and the grid model supply them)
SiteId(i) == 1000 + i
SiteCapacity(i) == 50 * i          \* MW
WindPlantId(i) == 200 + i
PlantGenMWMax(i) == 100 * i        \* MW

Catalog(f) == [i \in DOMAIN f |->
                  [site_id |-> SiteId(i), lat |-> f[i], lon |-> -120,
                   capacity |-> SiteCapacity(i)]]
WindGrid(f) == [i \in DOMAIN f |->
                   [plantID |-> WindPlantId(i), lat |-> f[i], lon |-> -120,
                    GenMWMax |-> PlantGenMWMax(i)]]

\* l.86-90: the distance of every catalog row to the plant; the columns
\* of both frames are handed to _greatCircleDistance as they are
DistTo(sites, plant) ==
    [i \in DOMAIN sites |->
        greatCircleDistance(AsRadians(sites[i].lat), AsRadians(sites[i].lon),
                            AsRadians(plant.lat), AsRadians(plant.lon))]

\* dist.min()
SeqMin(d) == CHOOSE m \in {d[i] : i \in DOMAIN d} :
                 \A i \in DOMAIN d : m <= d[i]

\* [dist == dist.min()].values[0]: the first row that attains the minimum
FirstAt(d, m) == CHOOSE i \in DOMAIN d :
                     d[i] = m /\ \A j \in 1..(i - 1) : d[j] # m

\* l.91-97: the row recorded for one plant
ClosestRow(sites, plant) ==
    LET d == DistTo(sites, plant)
        m == SeqMin(d)
    IN  [siteID   |-> sites[FirstAt(d, m)].site_id,
         capacity |-> sites[FirstAt(d, m)].capacity,
         dist     |-> m]

PlantIds(bus) == {bus[i].plantID : i \in DOMAIN bus}
RowOf(bus, id) == bus[CHOOSE i \in DOMAIN bus : bus[i].plantID = id]

\* l.81-102
FindClosest(sites, bus) ==
    [id \in PlantIds(bus) |-> ClosestRow(sites, RowOf(bus, id))]

\* l.143: siteIDs.drop_duplicates(subset='siteID').itertuples(): the rows
\* of the match table in plant order, a site kept at its first occurrence
RECURSIVE DropDuplicates(_, _, _, _)
DropDuplicates(acc, closest, bus, i) ==
    IF i > Len(bus) THEN acc
    ELSE LET row == closest[bus[i].plantID]
         IN  IF \E j \in DOMAIN acc : acc[j].siteID = row.siteID
             THEN DropDuplicates(acc, closest, bus, i + 1)
             ELSE DropDuplicates(Append(acc, row), closest, bus, i + 1)

DistinctSites == DropDuplicates(<<>>, closest_NREL_siteID, wind_farm_bus, 1)

\* l.133-136: the month label, e.g. "2016-01"
MonthLabel(y, m) ==
    IF m < 10 THEN NatStr(y) \o "-0" \o NatStr(m)
    ELSE NatStr(y) \o "-" \o NatStr(m)

\* the months of data_range: the first NMonths months of 2016
Months == [m \in 1..NMonths |-> MonthLabel(2016, m)]

\* the answers of the data service for one site and month: a frame with
\* the columns power (MW) and wind_speed (m/s), one row per sample
Answers ==
    {[power      |-> [t \in 1..NSamples |-> 10 * t],
      wind_speed |-> [t \in 1..NSamples |-> 6]],
     [power      |-> [t \in 1..NSamples |-> 10 * (NSamples + 1 - t)],
      wind_speed |-> [t \in 1..NSamples |-> 4 + t]]}

\* l.151-155: frame / capacity_i divides every column of the frame
DivideFrame(frame, capacity) ==
    [power      |-> [t \in DOMAIN frame.power |->
                        Div(frame.power[t], capacity)],
     wind_speed |-> [t \in DOMAIN frame.wind_speed |->
                        Div(frame.wind_speed[t], capacity)]]

\* sites_dict[month][site_id_i] = frame, the month's dict made at l.137
Store(dict, month, site, frame) ==
    IF month \in DOMAIN dict
    THEN [dict EXCEPT ![month] =
             IF site \in DOMAIN @ THEN [@ EXCEPT ![site] = frame]
             ELSE @ @@ (site :> frame)]
    ELSE dict @@ (month :> (site :> frame))

\* the timestamps of data_range, month after month
Timestamps == 1..(NMonths * NSamples)
MonthOf(t) == ((t - 1) \div NSamples) + 1
SampleOf(t) == ((t - 1) % NSamples) + 1

\* l.175-189: one column per distinct matched site, the rows of a month
\* filled from column col of the month's frame of that site
Reshape(dict, sites, col) ==
    [site \in {sites[j].siteID : j \in DOMAIN sites} |->
        [t \in Timestamps |->
            IF /\ Months[MonthOf(t)] \in DOMAIN dict
               /\ site \in DOMAIN dict[Months[MonthOf(t)]]
            THEN dict[Months[MonthOf(t)]][site][col][SampleOf(t)]
            ELSE NaN]]

\* a column times a number
ColumnTimes(column, c) == [t \in DOMAIN column |-> Mul(column[t], c)]

\* ScalePower multiplying by the matched site's capacity
ScalePowerBySiteCapacity(power, bus, closest) ==
    [id \in PlantIds(bus) |->
        ColumnTimes(power[closest[id].siteID], closest[id].capacity)]

\* l.209-213: siteID = closest_NREL_siteID.loc[plantID, 'siteID'] and
\* wind_farm_power[plantID] = NREL_power[siteID]*GenMWMax
ScalePower(power, bus, closest) ==
    [id \in PlantIds(bus) |->
        ColumnTimes(power[closest[id].siteID], RowOf(bus, id).GenMWMax)]

SamplesPerHour == 12               \* 5-minute samples, l.111

\* the clock hour of a timestamp: its month and its hour in the month
HourOf(t) == <<MonthOf(t), (SampleOf(t) - 1) \div SamplesPerHour>>

RatAdd(x, y) ==
    IF x.den = y.den THEN Rat(x.num + y.num, x.den)
    ELSE Rat(x.num * y.den + y.num * x.den, x.den * y.den)

RECURSIVE RatSum(_, _)
RatSum(column, ts) ==
    IF ts = {} THEN Rat(0, 1)
    ELSE LET t == CHOOSE u \in ts : TRUE
         IN  RatAdd(column[t], RatSum(column, ts \ {t}))

\* l.215: resample('H').mean(): the mean of the values of each clock hour
HourlyMean(column) ==
    [h \in {HourOf(t) : t \in DOMAIN column} |->
        LET ts == {t \in DOMAIN column : HourOf(t) = h}
            sum == RatSum(column, ts)
        IN  Rat(sum.num, sum.den * Cardinality(ts))]

WindIdle ==
    /\ nrel_sites = <<>>
    /\ wind_farm_bus = <<>>
    /\ closest_NREL_siteID = EmptyDict
    /\ wpc = "idle"
    /\ reqn = 0
    /\ served = EmptyDict
    /\ sites_dict = EmptyDict
    /\ NREL_power = EmptyDict
    /\ NREL_windspeed = EmptyDict
    /\ wind_farm_power = EmptyDict
    /\ hourly = EmptyDict

WindInit ==
    /\ \E n \in 0..MaxSites : \E f \in [1..n -> SiteLats] :
          nrel_sites = Catalog(f)
    /\ \E n \in 0..MaxWindPlants : \E f \in [1..n -> PlantLats] :
          wind_farm_bus = WindGrid(f)
    /\ closest_NREL_siteID = EmptyDict
    /\ wpc = "start"
    /\ reqn = 0
    /\ served = EmptyDict
    /\ sites_dict = EmptyDict
    /\ NREL_power = EmptyDict
    /\ NREL_windspeed = EmptyDict
    /\ wind_farm_power = EmptyDict
    /\ hourly = EmptyDict

\* l.70-102
Match ==
    /\ wpc = "start"
    /\ nrel_sites # <<>> \/ wind_farm_bus = <<>>
    /\ closest_NREL_siteID' = FindClosest(nrel_sites, wind_farm_bus)
    /\ wpc' = "fetch"
    /\ UNCHANGED <<nrel_sites, wind_farm_bus, reqn, served, sites_dict,
                   NREL_power, NREL_windspeed, wind_farm_power, hourly>>
    /\ UNCHANGED solarVars

\* l.92-94: with an empty catalog no row attains the minimum and
\* .values[0] raises IndexError
MatchFails ==
    /\ wpc = "start"
    /\ nrel_sites = <<>>
    /\ wind_farm_bus # <<>>
    /\ wpc' = "failed"
    /\ UNCHANGED <<nrel_sites, wind_farm_bus, closest_NREL_siteID, reqn,
                   served, sites_dict, NREL_power, NREL_windspeed,
                   wind_farm_power, hourly>>
    /\ UNCHANGED solarVars

\* the month and the site of the next request: l.131-146 loop over the
\* months and, in each, over the distinct sites
ReqMonth == Months[(reqn \div Len(DistinctSites)) + 1]
ReqSite == DistinctSites[(reqn % Len(DistinctSites)) + 1]

\* l.147-155: one request, answered
Request ==
    /\ wpc = "fetch"
    /\ reqn < NMonths * Len(DistinctSites)
    /\ \E answer \in Answers :
          /\ served' = served @@ (<<ReqMonth, ReqSite.siteID>> :> answer)
          /\ sites_dict' = Store(sites_dict, ReqMonth, ReqSite.siteID,
                                 DivideFrame(answer, ReqSite.capacity))
    /\ reqn' = reqn + 1
    /\ UNCHANGED <<nrel_sites, wind_farm_bus, closest_NREL_siteID, wpc,
                   NREL_power, NREL_windspeed, wind_farm_power, hourly>>
    /\ UNCHANGED solarVars

\* l.151: get_nc_data_from_url raises; nothing catches it
RequestFails ==
    /\ wpc = "fetch"
    /\ reqn < NMonths * Len(DistinctSites)
    /\ wpc' = "failed"
    /\ UNCHANGED <<nrel_sites, wind_farm_bus, closest_NREL_siteID, reqn,
                   served, sites_dict, NREL_power, NREL_windspeed,
                   wind_farm_power, hourly>>
    /\ UNCHANGED solarVars

\* l.137, l.156-157: every month has its dict, also without any site
Fetched ==
    /\ wpc = "fetch"
    /\ reqn = NMonths * Len(DistinctSites)
    /\ sites_dict' = [m \in {Months[i] : i \in DOMAIN Months} |->
                         IF m \in DOMAIN sites_dict THEN sites_dict[m]
                         ELSE EmptyDict]
    /\ wpc' = "fetched"
    /\ UNCHANGED <<nrel_sites, wind_farm_bus, closest_NREL_siteID, reqn,
                   served, NREL_power, NREL_windspeed, wind_farm_power,
                   hourly>>
    /\ UNCHANGED solarVars

\* l.160-190
DictToDataFrame ==
    /\ wpc = "fetched"
    /\ NREL_power' = Reshape(sites_dict, DistinctSites, "power")
    /\ NREL_windspeed' = Reshape(sites_dict, DistinctSites, "wind_speed")
    /\ wpc' = "reshaped"
    /\ UNCHANGED <<nrel_sites, wind_farm_bus, closest_NREL_siteID, reqn,
                   served, sites_dict, wind_farm_power, hourly>>
    /\ UNCHANGED solarVars

\* l.193-216
ScalePowerToPlantCapacity ==
    /\ wpc = "reshaped"
    /\ wind_farm_power' =
          ScalePower(NREL_power, wind_farm_bus, closest_NREL_siteID)
    /\ hourly' = [id \in DOMAIN wind_farm_power' |->
                     HourlyMean(wind_farm_power'[id])]
    /\ wpc' = "done"
    /\ UNCHANGED <<nrel_sites, wind_farm_bus, closest_NREL_siteID, reqn,
                   served, sites_dict, NREL_power, NREL_windspeed>>
    /\ UNCHANGED solarVars

-----------------------------------------------------------------------------
(* The two programs.                                                       *)

Init == SolarInit /\ WindIdle

Next ==
    \/ Deduplicate
    \/ Query
    \/ QueryFails
    \/ ScalePlants
    \/ NoSuchKey
    \/ WriteFile

Spec == Init /\ [][Next]_vars

WindNext ==
    \/ Match
    \/ MatchFails
    \/ Request
    \/ RequestFails
    \/ Fetched
    \/ DictToDataFrame
    \/ ScalePowerToPlantCapacity

WindStart == SolarIdle /\ WindInit

WindSpec == WindStart /\ [][WindNext]_vars

-----------------------------------------------------------------------------
(* Properties of the solar script.                                         *)

AllZero(g) == \A t \in DOMAIN g : g[t] = 0

\* the key the location loop has just finished with
LastKey == toto[k - 1]

\* the rows of a frame that belong to plant id at index label t
RowsOf(rows, id, t) ==
    {r \in DOMAIN rows : rows[r].id = id /\ rows[r].idx = t}

\* C1: once a location whose GHI series g is not all zero has been
\* processed, every plant standing there has, at every index t of 1..N,
\* a row in the table, and its power is Pmax * g[t] / max(g).
C1_PowerIsPmaxTimesNormalizedGhi ==
    (pc = "loop" /\ k > 1 /\ ~AllZero(ghi)) =>
        \A j \in DOMAIN coord[LastKey] : \A t \in 1..Len(ghi) :
            LET plant == coord[LastKey][j]
                mine == RowsOf(data, plant[1], t)
            IN  /\ mine # {}
                /\ \A r \in mine :
                      RatEq(data[r].Pout,
                            Rat(plant[2] * ghi[t], SeqMax(ghi)))

\* C4: after a run that wrote the file, every location key of the
\* deduplicated mapping has been queried exactly once, and the file holds
\* exactly one line for every solar plant of the grid and every index.
C4_OneRowPerPlantAndStep ==
    written =>
        /\ {queried[q] : q \in DOMAIN queried} = DOMAIN coord
        /\ Len(queried) = Cardinality(DOMAIN coord)
        /\ \A i \in DOMAIN solar_plant :
              /\ \E r \in DOMAIN outfile : outfile[r][2] = solar_plant[i].id
              /\ \A t \in 1..Len(ghi) :
                    Cardinality({r \in DOMAIN outfile :
                                    /\ outfile[r][2] = solar_plant[i].id
                                    /\ outfile[r][1] = t}) = 1

\* C5: the lines of the written file are in non-decreasing order of the
\* 1-based time index.
C5_FileSortedByIndex ==
    written =>
        \A r \in 1..(Len(outfile) - 1) : outfile[r][1] <= outfile[r + 1][1]

\* C5 witness: a written file in which two plants' series overlap, the
\* lines of one index next to each other
C5_Witness ==
    /\ written
    /\ \E r \in 1..(Len(outfile) - 2) :
          /\ outfile[r][1] = outfile[r + 1][1]
          /\ outfile[r][2] # outfile[r + 1][2]
          /\ outfile[r + 2][1] > outfile[r][1]

\* the places where plant i is listed in the mapping
ListedAt(i) ==
    {<<key, j>> \in (DOMAIN coord) \X (1..Len(solar_plant)) :
        /\ j <= Len(coord[key])
        /\ coord[key][j][1] = solar_plant[i].id}

\* C6: the mapping has as many keys as there are distinct (lon, lat)
\* pairs among the plants; every plant is listed exactly once, under the
\* key of its own coordinates, with its own Pmax; two plants are under
\* one key exactly when their coordinates are equal, and then in input
\* order.
C6_DedupGroupsByCoordinates ==
    pc # "start" =>
        /\ Cardinality(DOMAIN coord) =
              Cardinality({<<solar_plant[i].lon, solar_plant[i].lat>> :
                              i \in DOMAIN solar_plant})
        /\ \A key \in DOMAIN coord : Len(coord[key]) >= 1
        /\ \A i \in DOMAIN solar_plant :
              /\ Cardinality(ListedAt(i)) = 1
              /\ \A at \in ListedAt(i) :
                    /\ at[1] = <<Str(solar_plant[i].lon),
                                 Str(solar_plant[i].lat)>>
                    /\ coord[at[1]][at[2]][2] = solar_plant[i].Pmax
        /\ \A i, j \in DOMAIN solar_plant :
              \A a \in ListedAt(i) : \A b \in ListedAt(j) :
                 /\ (a[1] = b[1]) <=>
                       (/\ solar_plant[i].lon = solar_plant[j].lon
                        /\ solar_plant[i].lat = solar_plant[j].lat)
                 /\ (a[1] = b[1] /\ i < j) => a[2] < b[2]
        /\ \A key \in DOMAIN coord : \A j \in DOMAIN coord[key] :
              \E i \in DOMAIN solar_plant :
                  coord[key][j] = <<solar_plant[i].id, solar_plant[i].Pmax>>

\* C6 witness: three plants, two of them at one place and the third at a
\* place of the same longitude
C6_Witness ==
    /\ pc # "start"
    /\ Len(solar_plant) = 3
    /\ Cardinality(DOMAIN coord) = 2
    /\ \E a, b \in DOMAIN coord : a # b /\ a[1] = b[1]

\* C7: for a GHI series that is not all zero the normalized series has
\* the indices 1..N of the GHI series, every value lies in [0, 1], and the
\* value is exactly 1 at an index where the GHI series is largest.
C7_NormalizedWithinUnitInterval ==
    (pc = "scale" /\ ~AllZero(ghi)) =>
        /\ DOMAIN data_loc.Pout = 1..Len(ghi)
        /\ \A t \in 1..Len(ghi) :
              /\ IsFinite(data_loc.Pout[t])
              /\ 0 <= data_loc.Pout[t].num
              /\ data_loc.Pout[t].num <= data_loc.Pout[t].den
        /\ \E t \in 1..Len(ghi) :
              /\ \A u \in 1..Len(ghi) : ghi[u] <= ghi[t]
              /\ data_loc.Pout[t].num = data_loc.Pout[t].den

\* C7 witness: a series with its largest value first and a smaller,
\* non-zero value after it
C7_Witness ==
    /\ pc = "scale"
    /\ ghi = <<100, 50>>
    /\ RatEq(data_loc.Pout[2], Rat(1, 2))

\* C9: a location whose GHI series is all zero ends the run: the script
\* does not go on past it, and no not-a-number row reaches the table or
\* the file.
C9_ZeroGhiEndsRun ==
    /\ (ghi # <<>> /\ AllZero(ghi)) => pc \in {"scale", "failed"}
    /\ \A r \in DOMAIN data : ~IsNaN(data[r].Pout)
    /\ \A r \in DOMAIN outfile : ~IsNaN(outfile[r][3])

IsPrefix(a, b) == Len(a) <= Len(b) /\ \A q \in DOMAIN a : a[q] = b[q]

\* the state part of C10
C10_State ==
    /\ IsPrefix(queried, toto)
    /\ \A q \in 1..(Len(queried) - 1) : toto[q] \in DOMAIN coord
    /\ written =>
          /\ pc = "done"
          /\ queried = toto
          /\ \A q \in DOMAIN toto : toto[q] \in DOMAIN coord
    /\ pc = "failed" => (~written /\ outfile = <<>>)

\* C10: locations are queried one after another in the order of the
\* loop; a location is queried only once every earlier one has been
\* processed (its key has plants in the mapping); the file is written
\* only after every location of the loop has been queried and processed;
\* a run that failed wrote nothing, and queries and writes nothing more.
C10_NoPartialOutput ==
    /\ []C10_State
    /\ [][pc = "failed" => (queried' = queried /\ written' = written)]_vars

\* C10 witness: the first location was processed, the second failed, and
\* the rows gathered so far were not written
C10_Witness ==
    /\ pc = "failed"
    /\ Len(queried) = 2
    /\ data # <<>>
    /\ ~written

-----------------------------------------------------------------------------
(* Properties of the wind functions.                                       *)

\* math.radians(d), in angle units
DegToRad(d) == d * 355

\* the distance in km (times 113*180) between a site and a plant, their
\* coordinates converted from degrees to radians
TrueDist(site, plant) ==
    greatCircleDistance(DegToRad(site.lat), DegToRad(site.lon),
                        DegToRad(plant.lat), DegToRad(plant.lon))

TrueDistTo(plant) ==
    [j \in DOMAIN nrel_sites |-> TrueDist(nrel_sites[j], plant)]

Matched == wpc \notin {"start", "failed"}

\* C2: every wind plant has one match; its dist is the smallest distance
\* between the plant and a catalog site, and its siteID and capacity are
\* those of the first catalog entry at that distance.
C2_MatchIsNearestSite ==
    Matched =>
        /\ DOMAIN closest_NREL_siteID = PlantIds(wind_farm_bus)
        /\ \A i \in DOMAIN wind_farm_bus :
              LET plant == wind_farm_bus[i]
                  row == closest_NREL_siteID[plant.plantID]
                  d == TrueDistTo(plant)
                  first == nrel_sites[FirstAt(d, SeqMin(d))]
              IN  /\ row.dist = SeqMin(d)
                  /\ row.siteID = first.site_id
                  /\ row.capacity = first.capacity

\* C2, the choice alone: the matched site is one of the catalog sites
\* nearest to the plant.
C2_MatchedSiteIsANearestOne ==
    Matched =>
        \A i \in DOMAIN wind_farm_bus :
            LET plant == wind_farm_bus[i]
                row == closest_NREL_siteID[plant.plantID]
                d == TrueDistTo(plant)
            IN  \E j \in DOMAIN nrel_sites :
                    /\ nrel_sites[j].site_id = row.siteID
                    /\ d[j] = SeqMin(d)

\* C3: before the hourly resampling, the value of every plant at every
\* timestamp is the normalized power of its matched site at that
\* timestamp times the plant's own GenMWMax, i.e. the power the service
\* gave for the site, divided by the site's capacity, times GenMWMax;
\* with the GenMWMax of one plant doubled, that plant's values double and
\* every other plant's values stay.
C3_ScaledByPlantCapacity ==
    wpc = "done" =>
        /\ DOMAIN wind_farm_power = PlantIds(wind_farm_bus)
        /\ \A i \in DOMAIN wind_farm_bus : \A t \in Timestamps :
              LET plant == wind_farm_bus[i]
                  row == closest_NREL_siteID[plant.plantID]
                  raw == served[<<Months[MonthOf(t)], row.siteID>>]
              IN  /\ wind_farm_power[plant.plantID][t] =
                        Mul(NREL_power[row.siteID][t], plant.GenMWMax)
                  /\ RatEq(wind_farm_power[plant.plantID][t],
                           Rat(raw.power[SampleOf(t)] * plant.GenMWMax,
                               row.capacity))
        /\ \A i \in DOMAIN wind_farm_bus :
              LET doubled == [wind_farm_bus EXCEPT
                                 ![i].GenMWMax = 2 * @]
                  again == ScalePower(NREL_power, doubled,
                                      closest_NREL_siteID)
              IN  \A j \in DOMAIN wind_farm_bus : \A t \in Timestamps :
                      LET id == wind_farm_bus[j].plantID
                      IN  RatEq(again[id][t],
                                Mul(wind_farm_power[id][t],
                                    IF j = i THEN 2 ELSE 1))

\* C3 witness: the plant of 100 MW matched to the site of 50 MW, whose
\* normalized series is [0.2, 0.4], gets [20, 40] MW; a second plant is
\* matched to the same site
C3_Witness ==
    /\ wpc = "done"
    /\ Len(wind_farm_bus) = 2
    /\ closest_NREL_siteID[WindPlantId(1)].capacity = 50
    /\ closest_NREL_siteID[WindPlantId(2)].siteID =
          closest_NREL_siteID[WindPlantId(1)].siteID
    /\ RatEq(NREL_power[closest_NREL_siteID[WindPlantId(1)].siteID][1],
             Rat(2, 10))
    /\ RatEq(NREL_power[closest_NREL_siteID[WindPlantId(1)].siteID][2],
             Rat(4, 10))
    /\ RatEq(wind_farm_power[WindPlantId(1)][1], Rat(20, 1))
    /\ RatEq(wind_farm_power[WindPlantId(1)][2], Rat(40, 1))

\* the capacity the match table holds for a site
CapacityOf(site) ==
    LET id == CHOOSE p \in DOMAIN closest_NREL_siteID :
                  closest_NREL_siteID[p].siteID = site
    IN  closest_NREL_siteID[id].capacity

\* C8: in every stored (month, site) frame the power column is the power
\* the service gave divided by the site's capacity, and the wind_speed
\* column is the wind speed the service gave, unchanged.
C8_OnlyPowerIsNormalized ==
    \A month \in DOMAIN sites_dict : \A site \in DOMAIN sites_dict[month] :
        LET raw == served[<<month, site>>]
            frame == sites_dict[month][site]
        IN  \A t \in 1..NSamples :
                /\ RatEq(frame.power[t], Rat(raw.power[t], CapacityOf(site)))
                /\ RatEq(frame.wind_speed[t], Rat(raw.wind_speed[t], 1))

====
